---- MODULE Spec2Model ----
(***************************************************************************)
(* Model of ttt's time-span resolver (src-tauri/src/timespan_parser.rs)    *)
(* and of the TimeSpan / Timestamp types it rests on                       *)
(* (src-tauri/src/model.rs).                                               *)
(*                                                                         *)
(* The resolver is a pure function of a word list and an anchor, so the    *)
(* state machine is: Init draws one call with its inputs, one action per   *)
(* entry point applies it and records the outcome.                         *)
(*                                                                         *)
(* A Timestamp is an integer number of ticks of local time since           *)
(* 1970-01-01T00:00:00; there are TicksPerDay ticks in a day and tick 0 of *)
(* a day is 00:00:00.  Every Timestamp of one call carries the same fixed  *)
(* offset (that of Context.now), so the order of the integers is the order *)
(* of the instants.                                                        *)
(***************************************************************************)
EXTENDS Integers, Sequences, FiniteSets, TLC

VARIABLES fn, words, tokens, now, a, b, result, pc,
          frames, projects, clock, tz, ret, hpc

parservars == <<fn, words, tokens, now, a, b, result, pc>>
dbvars == <<frames, projects, clock, tz, ret, hpc>>
vars == <<fn, words, tokens, now, a, b, result, pc,
          frames, projects, clock, tz, ret, hpc>>

----------------------------------------------------------------------------
(* Bounds of the model *)

\* resolution of the clock: instants per calendar day
TicksPerDay == 3
EdgeDays == 8

\* number of consecutive calendar days the anchor is drawn from
AnchorDays == 77

\* number of instants TimeSpan::new and TimeSpan::extend are tried on
NTimes == 5

----------------------------------------------------------------------------
(* chrono's proleptic Gregorian calendar: the date fields of a DateTime *)

\* day number (days since 1970-01-01) of the calendar date y-m-d
DaysFromCivil(y, m, d) ==
    LET yy  == IF m <= 2 THEN y - 1 ELSE y
        era == yy \div 400
        yoe == yy - era * 400
        mp  == (m + 9) % 12
        doy == (153 * mp + 2) \div 5 + d - 1
        doe == yoe * 365 + yoe \div 4 - yoe \div 100 + doy
    IN  era * 146097 + doe - 719468

\* calendar date [y, m, d] of a day number
CivilFromDays(z) ==
    LET zz  == z + 719468
        era == zz \div 146097
        doe == zz - era * 146097
        yoe == (doe - doe \div 1460 + doe \div 36524 - doe \div 146096) \div 365
        doy == doe - (365 * yoe + yoe \div 4 - yoe \div 100)
        mp  == (5 * doy + 2) \div 153
        dd  == doy - (153 * mp + 2) \div 5 + 1
        mm  == IF mp < 10 THEN mp + 3 ELSE mp - 9
    IN  [y |-> yoe + era * 400 + (IF mm <= 2 THEN 1 ELSE 0), m |-> mm, d |-> dd]

\* std::cmp::min
MinT(x, y) == IF x <= y THEN x ELSE y

IsLeap(y) == (y % 4 = 0 /\ y % 100 # 0) \/ y % 400 = 0

DaysInMonth(y, m) ==
    IF m = 2 THEN (IF IsLeap(y) THEN 29 ELSE 28)
    ELSE IF m \in {4, 6, 9, 11} THEN 30 ELSE 31

\* the calendar day a Timestamp lies in, and its time of day
DayOf(t) == t \div TicksPerDay
TickOf(t) == t % TicksPerDay
Date(t) == CivilFromDays(DayOf(t))

\* first and last day chrono's NaiveDate can represent
MinRepDay == DaysFromCivil(-262143, 1, 1)
MaxRepDay == DaysFromCivil(262142, 12, 31)

\* a day count no shift inside the representable range can have
DaysBeyondRange == MaxRepDay - MinRepDay + 1

----------------------------------------------------------------------------
(* Timestamp (model.rs) *)

None == [some |-> FALSE, v |-> 0]
Some(t) == [some |-> TRUE, v |-> t]

\* the end of the Timestamp's day instead of its beginning
at_midnight_next(t) == t - TickOf(t) + TicksPerDay

\* Timestamp::at_midnight
at_midnight(t) == t - TickOf(t)

\* weeks counted from Sunday
num_days_from_sunday(t) == (DayOf(t) + 4) % 7

\* Weekday::num_days_from_monday of the Timestamp's date; 1970-01-01 is a Thursday
num_days_from_monday(t) == (DayOf(t) + 3) % 7

\* Timestamp + Days, Timestamp - Days: checked_add_days / checked_sub_days
AddDays(t, n) ==
    IF n >= DaysBeyondRange \/ DayOf(t) + n > MaxRepDay THEN None
    ELSE Some(t + n * TicksPerDay)

SubDays(t, n) ==
    IF n >= DaysBeyondRange \/ DayOf(t) - n < MinRepDay THEN None
    ELSE Some(t - n * TicksPerDay)

\* the Timestamp at time of day tick on day d of month m of year y, d
\* clamped to the length of the month; None outside the representable range
ClampedDate(y, m, d, tick) ==
    IF DaysFromCivil(y, m, MinT(d, DaysInMonth(y, m))) < MinRepDay
       \/ DaysFromCivil(y, m, MinT(d, DaysInMonth(y, m))) > MaxRepDay
    THEN None
    ELSE Some(DaysFromCivil(y, m, MinT(d, DaysInMonth(y, m))) * TicksPerDay + tick)

\* a month shift that does not carry into the year
MonthsFrom_nocarry(c, tick, n) ==
    ClampedDate(c.y, ((c.m - 1 + n) % 12) + 1, c.d, tick)

\* the date c moved by n calendar months (n may be negative), the day of the
\* month clamped to the length of the target month
MonthsFrom(c, tick, n) ==
    ClampedDate((c.y * 12 + c.m - 1 + n) \div 12, ((c.y * 12 + c.m - 1 + n) % 12) + 1,
                c.d, tick)

\* checked_add_months / checked_sub_months, the time of day kept
ShiftMonths(t, n) == MonthsFrom(Date(t), TickOf(t), n)

\* Timestamp + Months, Timestamp - Months: checked_add_months / checked_sub_months
AddMonths(t, n) == ShiftMonths(t, n)
SubMonths(t, n) == ShiftMonths(t, 0 - n)

\* the day of the month kept as it is
with_day1_kept(t) == t

\* DateTime::with_day(1)
with_day1(t) == (DayOf(t) - (Date(t).d - 1)) * TicksPerDay + TickOf(t)

\* the date c with its month replaced by month m0 (zero based); None when
\* the month or the day in it does not exist
MonthOf(c, tick, m0) ==
    IF m0 > 11 \/ c.d > DaysInMonth(c.y, m0 + 1) THEN None
    ELSE Some(DaysFromCivil(c.y, m0 + 1, c.d) * TicksPerDay + tick)

\* DateTime::with_month0(m0); with_month(1) is with_month0(0)
with_month0(t, m0) == MonthOf(Date(t), TickOf(t), m0)

----------------------------------------------------------------------------
(* outcomes of a call *)

NoTok == [t |-> "None", k |-> "", n |-> 0, m |-> 0, w |-> ""]

Ok(s, e) == [kind |-> "Ok", err |-> "", start |-> s, end |-> e, site |-> "", tok |-> NoTok]
Err(name) == [kind |-> "Err", err |-> name, start |-> 0, end |-> 0, site |-> "", tok |-> NoTok]
ErrSpan(name, s, e) == [kind |-> "Err", err |-> name, start |-> s, end |-> e, site |-> "", tok |-> NoTok]
ErrTok(name, where, tk) == [kind |-> "Err", err |-> name, start |-> 0, end |-> 0, site |-> where, tok |-> tk]
\* the call does not return: panic!, todo!(), unwrap() of None
Panic(why) == [kind |-> "Panic", err |-> why, start |-> 0, end |-> 0, site |-> "", tok |-> NoTok]
NoResult == [kind |-> "Pending", err |-> "", start |-> 0, end |-> 0, site |-> "", tok |-> NoTok]

----------------------------------------------------------------------------
(* TimeSpan (model.rs) *)

\* TimeSpan::new without its check
TimeSpan_new_unchecked(start, end) == Ok(start, end)

\* TimeSpan::new rejecting only end < start
TimeSpan_new_lt(start, end) ==
    IF end < start THEN ErrSpan("EndBeforeStart", start, end)
    ELSE Ok(start, end)

\* TimeSpan::new
TimeSpan_new(start, end) ==
    IF end <= start THEN ErrSpan("EndBeforeStart", start, end)
    ELSE Ok(start, end)

\* extend as the union of the two spans: the later of the two ends
TimeSpan_extend_union(self, other) ==
    TimeSpan_new(self.start, IF other.end > self.end THEN other.end ELSE self.end)

\* extend taking the start of the other span and the end of this one
TimeSpan_extend_reversed(self, other) == TimeSpan_new(other.start, self.end)

\* TimeSpan::extend; self and other are Ok outcomes
TimeSpan_extend(self, other) == TimeSpan_new(self.start, other.end)

----------------------------------------------------------------------------
(* Token and Type (timespan_parser.rs) *)

Tok(t, k, n, m, w) == [t |-> t, k |-> k, n |-> n, m |-> m, w |-> w]

Day(offset) == Tok("Day", "", offset, 0, "")
Span(k, n) == Tok("Span", k, n, 0, "")
Last == Tok("Last", "", 0, 0, "")
This == Tok("This", "", 0, 0, "")
To == Tok("To", "", 0, 0, "")
Number(n) == Tok("Number", "", n, 0, "")
PartialIsoDate(y, m) == Tok("PartialIsoDate", "", y, m, "")
IsoDate(day) == Tok("IsoDate", "", day, 0, "")
Error(w) == Tok("Error", "", 0, 0, w)

Week == Span("Week", 0)
Month == Span("Month", 0)
Year == Span("Year", 0)
Weekday(d) == Span("Weekday", d)
SpecificMonth(m) == Span("SpecificMonth", m)

WeekdayNames == <<"monday", "tuesday", "wednesday", "thursday", "friday",
                  "saturday", "sunday">>
MonthNames == <<"january", "february", "march", "april", "may", "june", "july",
                "august", "september", "october", "november", "december">>

\* index of x in the sequence names, 0 when absent
IndexOf(names, x) ==
    IF \E i \in DOMAIN names : names[i] = x
    THEN CHOOSE i \in DOMAIN names : names[i] = x
    ELSE 0

\* words compared as typed, no case folding
to_lowercase_identity(w) == w

\* str::to_lowercase on the words of the model's vocabulary
to_lowercase(w) ==
    CASE w = "mOnDaY" -> "monday"
      [] w = "Today" -> "today"
      [] w = "LAST" -> "last"
      [] w = "Foo" -> "foo"
      [] OTHER -> w

\* x.parse::<u32>()
parse_u32(x) ==
    CASE x = "3" -> Some(3)
      [] x = "12" -> Some(12)
      [] OTHER -> None

\* x.parse::<chrono::NaiveDate>(), the date as its day number
parse_naive_date(x) ==
    CASE x = "2023-07-03" -> Some(DaysFromCivil(2023, 7, 3))
      [] OTHER -> None

\* parse_partial_date: split at the first '-', both halves numbers
parse_partial_date(x) ==
    CASE x = "2023-07" -> [some |-> TRUE, y |-> 2023, m |-> 7]
      [] x = "2020-03" -> [some |-> TRUE, y |-> 2020, m |-> 3]
      [] OTHER -> [some |-> FALSE, y |-> 0, m |-> 0]

\* the closure of tokenize: one word to one Token
tokenize_word(word) ==
    LET x == to_lowercase(word)
    IN  IF x = "yesterday" THEN Day(-1)
        ELSE IF x = "today" THEN Day(0)
        ELSE IF x = "last" THEN Last
        ELSE IF x = "this" THEN This
        ELSE IF x \in {"to", "until"} THEN To
        ELSE IF IndexOf(WeekdayNames, x) # 0 THEN Weekday(IndexOf(WeekdayNames, x) - 1)
        ELSE IF IndexOf(MonthNames, x) # 0 THEN SpecificMonth(IndexOf(MonthNames, x) - 1)
        ELSE IF x \in {"week", "weeks"} THEN Week
        ELSE IF x \in {"month", "months"} THEN Month
        ELSE IF x \in {"year", "years"} THEN Year
        ELSE IF parse_u32(x).some THEN Number(parse_u32(x).v)
        ELSE IF parse_naive_date(x).some THEN IsoDate(parse_naive_date(x).v)
        ELSE IF parse_partial_date(x).some
             THEN PartialIsoDate(parse_partial_date(x).y, parse_partial_date(x).m)
        ELSE Error(word)

\* tokenize
tokenize(text) == [i \in DOMAIN text |-> tokenize_word(text[i])]

----------------------------------------------------------------------------
(* the span grammar (timespan_parser.rs) *)

\* -offset on an i8 without overflow checks (two's complement wrap)
wrapping_neg_i8(x) == ((128 - x) % 256) - 128

\* `as u64` of an i8: a negative value sign-extends to 2^64 + x, a day count
\* beyond every representable shift
as_u64(x) == IF x >= 0 THEN x ELSE DaysBeyondRange

\* the shifts applied to the outcome of an earlier shift
AddDaysTo(o, n) == IF o.some THEN AddDays(o.v, n) ELSE None
AddMonthsTo(o, n) == IF o.some THEN AddMonths(o.v, n) ELSE None
MinOf(x, o) == IF o.some THEN Some(MinT(x, o.v)) ELSE None

\* TimeSpan::new(start, end) on the outcomes of two shifts; the arms have no
\* branch for a shift that left the representable range: no span and no
\* ParseError comes back
SpanOf(start, end) ==
    IF start.some /\ end.some THEN TimeSpan_new(start.v, end.v)
    ELSE Panic("out of range")

\* the Day arm ending one day after its begin, not capped at the anchor
DayFrom_uncapped(begin, anchor) == SpanOf(begin, AddDaysTo(begin, 1))

\* arm Token::Day, from begin on: TimeSpan::new(begin, min(now, begin + 1 day))
DayFrom(begin, anchor) == SpanOf(begin, MinOf(anchor, AddDaysTo(begin, 1)))

\* the negation of every negative offset trapped by a build with overflow checks
ParseDay_trapping(offset, anchor, overflow_checks) ==
    IF overflow_checks /\ offset < 0 THEN Panic("attempt to negate with overflow")
    ELSE DayFrom(SubDays(at_midnight(anchor), as_u64(wrapping_neg_i8(offset))), anchor)

\* arm Token::Day(offset) if offset <= 0; overflow_checks is the build's
\* setting for integer overflow (on: -(-128i8) panics, off: it wraps)
ParseDay(offset, anchor, overflow_checks) ==
    IF overflow_checks /\ offset = -128 THEN Panic("attempt to negate with overflow")
    ELSE DayFrom(SubDays(at_midnight(anchor), as_u64(wrapping_neg_i8(offset))), anchor)

\* [start, start + 1 day), [start, start + 7 days), [start, start + 1 month),
\* [start, start + 12 months)
DayStarting(start) == SpanOf(start, AddDaysTo(start, 1))
WeekStarting(start) == SpanOf(start, AddDaysTo(start, 7))
MonthStarting(start) == SpanOf(start, AddMonthsTo(start, 1))
YearStarting(start) == SpanOf(start, AddMonthsTo(start, 12))

\* the Weekday arm without the step back of a candidate after the anchor
WeekdayFrom_nostep(cand, anchor) == DayStarting(cand)

\* arm Token::Span(Type::Weekday), from the candidate start on
WeekdayFrom(cand, anchor) ==
    DayStarting(IF cand.some /\ cand.v > anchor THEN SubDays(cand.v, 7) ELSE cand)

\* arm Token::Span(Type::Weekday(day))
ParseWeekday(day, anchor) ==
    WeekdayFrom(AddDaysTo(SubDays(at_midnight(anchor), num_days_from_monday(anchor)), day),
                anchor)

\* the SpecificMonth arm without the step back of a candidate after the anchor
MonthFrom_nostep(cand, anchor) == MonthStarting(cand)

\* arm Token::Span(Type::SpecificMonth), from the candidate start on
MonthFrom(cand, anchor) ==
    MonthStarting(IF cand.some /\ cand.v > anchor THEN SubMonths(cand.v, 12) ELSE cand)

\* arm Token::Span(Type::SpecificMonth(month))
ParseSpecificMonth(month, anchor) ==
    MonthFrom(with_month0(with_day1(at_midnight(anchor)), month), anchor)

\* the current period with a weekday read as the week around the anchor
CurrentSpan_guess(span, anchor) ==
    IF span.k \in {"Week", "Weekday"}
      THEN WeekStarting(SubDays(at_midnight(anchor), num_days_from_monday(anchor)))
    ELSE IF span.k = "Month"
      THEN MonthStarting(Some(with_day1(at_midnight(anchor))))
    ELSE IF span.k = "Year"
      THEN YearStarting(with_month0(with_day1(at_midnight(anchor)), 0))
    ELSE Err("LanguageIsComplicated")

\* parse_span, first match: the current period of the kind
CurrentSpan(span, anchor) ==
    IF span.k = "Week"
      THEN WeekStarting(SubDays(at_midnight(anchor), num_days_from_monday(anchor)))
    ELSE IF span.k = "Month"
      THEN MonthStarting(Some(with_day1(at_midnight(anchor))))
    ELSE IF span.k = "Year"
      THEN YearStarting(with_month0(with_day1(at_midnight(anchor)), 0))
    ELSE Err("LanguageIsComplicated")

\* the previous period with only its start moved back
PreviousSpan_startonly(span, timespan) ==
    IF span.k \in {"Week", "Weekday"}
      THEN SpanOf(SubDays(timespan.start, 7), Some(timespan.end))
    ELSE IF span.k = "Month"
      THEN SpanOf(SubMonths(timespan.start, 1), Some(timespan.end))
    ELSE SpanOf(SubMonths(timespan.start, 12), Some(timespan.end))

\* parse_span, second match with is_current = false: one unit back
PreviousSpan(span, timespan) ==
    IF span.k \in {"Week", "Weekday"}
      THEN SpanOf(SubDays(timespan.start, 7), SubDays(timespan.end, 7))
    ELSE IF span.k = "Month"
      THEN SpanOf(SubMonths(timespan.start, 1), SubMonths(timespan.end, 1))
    ELSE SpanOf(SubMonths(timespan.start, 12), SubMonths(timespan.end, 12))

\* parse_span, second match
SelectSpan(span, is_current, timespan) ==
    IF timespan.kind # "Ok" THEN timespan
    ELSE IF is_current THEN timespan
    ELSE PreviousSpan(span, timespan)

\* parse_span
parse_span(span, anchor, is_current) ==
    SelectSpan(span, is_current, CurrentSpan(span, anchor))

\* arm `other`: every token no earlier arm takes
UnexpectedOther(tk) == ErrTok("UnexpectedToken", "unexpected", tk)

\* parse_simple_timespan from position pos of the token stream: the outcome
\* and the position of the next token not consumed
parse_simple_timespan(toks, pos, anchor, overflow_checks) ==
    IF pos > Len(toks) THEN [out |-> Err("EmptyInput"), pos |-> pos]
    ELSE
      LET tk      == toks[pos]
          hasPeek == pos + 1 <= Len(toks)
          peek    == IF hasPeek THEN toks[pos + 1] ELSE NoTok
      IN  IF tk.t = "Day" /\ tk.n = 0 /\ hasPeek
            THEN [out |-> ErrTok("UnexpectedToken", "after today", peek), pos |-> pos + 1]
          ELSE IF tk.t = "Day" /\ tk.n <= 0
            THEN [out |-> ParseDay(tk.n, anchor, overflow_checks), pos |-> pos + 1]
          ELSE IF tk.t = "To"
            THEN [out |-> ErrTok("UnexpectedToken", "cannot start with To", NoTok), pos |-> pos + 1]
          ELSE IF tk.t = "This" /\ peek.t = "Span"
            THEN [out |-> parse_span(peek, anchor, TRUE), pos |-> pos + 2]
          ELSE IF tk.t = "Last" /\ peek.t = "Span"
            THEN [out |-> parse_span(peek, anchor, FALSE), pos |-> pos + 2]
          ELSE IF tk.t = "Last" /\ peek.t = "Number"
            THEN [out |-> Panic("not yet implemented"), pos |-> pos + 1]
          ELSE IF tk.t = "Span" /\ tk.k = "Weekday"
            THEN [out |-> ParseWeekday(tk.n, anchor), pos |-> pos + 1]
          ELSE IF tk.t = "Span" /\ tk.k = "SpecificMonth"
            THEN [out |-> ParseSpecificMonth(tk.n, anchor), pos |-> pos + 1]
          ELSE [out |-> UnexpectedOther(tk), pos |-> pos + 1]

\* the composed span returned without a look at what follows it
AfterExtend_notrailing(toks, second, full) == full

\* parse: the check for trailing tokens after the composed span
AfterExtend(toks, second, full) ==
    IF full.kind # "Ok" THEN full
    ELSE IF second.pos <= Len(toks)
      THEN ErrTok("UnexpectedToken", "after range", toks[second.pos])
    ELSE full

\* the range answered by its second side alone
AfterSecond_secondonly(toks, first, second) ==
    IF second.out.kind # "Ok" THEN second.out
    ELSE AfterExtend(toks, second, second.out)

\* parse: arm Some(Token::To), after the second parse_simple_timespan
AfterSecond(toks, first, second) ==
    IF second.out.kind # "Ok" THEN second.out
    ELSE AfterExtend(toks, second, TimeSpan_extend(first.out, second.out))

\* parse: match tokens.next() after the first parse_simple_timespan
AfterFirst(toks, anchor, overflow_checks, first) ==
    IF first.out.kind # "Ok" THEN first.out
    ELSE IF first.pos > Len(toks) THEN first.out
    ELSE IF toks[first.pos].t = "To"
      THEN AfterSecond(toks, first,
                       parse_simple_timespan(toks, first.pos + 1, anchor, overflow_checks))
    ELSE ErrTok("UnexpectedToken", "after span", toks[first.pos])

\* parse, after tokenize
parse_tokens(toks, anchor, overflow_checks) ==
    AfterFirst(toks, anchor, overflow_checks,
               parse_simple_timespan(toks, 1, anchor, overflow_checks))

\* parse
parse(text, anchor, overflow_checks) == parse_tokens(tokenize(text), anchor, overflow_checks)

----------------------------------------------------------------------------
(* the inputs the calls are drawn from *)

\* the anchors: every instant of AnchorDays consecutive days that span a
\* year's end and the 29th of February 2024
FirstAnchorDay == DaysFromCivil(2023, 12, 20)
Anchors == {(FirstAnchorDay + i) * TicksPerDay + k :
              i \in 0 .. AnchorDays - 1, k \in 0 .. TicksPerDay - 1}

\* anchors of the calls that vary a second input at the same time
FewAnchors == {t \in Anchors : DayOf(t) - FirstAnchorDay < AnchorDays \div 5}

Range(f) == {f[i] : i \in DOMAIN f}

KindWords == {"week", "weeks", "month", "months", "year", "years"}
Vocabulary ==
    {"today", "yesterday", "last", "this", "to", "until"}
      \cup Range(WeekdayNames) \cup Range(MonthNames) \cup KindWords
      \cup {"3", "12", "2023-07-03", "2023-07", "2020-03"}
      \cup {"mOnDaY", "Today", "LAST", "Foo", "12abc", "tomorrow"}

\* the sides of the ranges A To B that are tried
RangeSides ==
    {<<"today">>, <<"yesterday">>, <<"wednesday">>, <<"april">>, <<"december">>,
     <<"this", "week">>, <<"last", "week">>, <<"last", "month">>, <<"this", "year">>,
     <<"last", "thursday">>, <<"this", "march">>}

Phrases ==
    {<<>>}
      \cup {<<w>> : w \in Vocabulary}
      \cup {<<q, w>> : q \in {"this", "last", "today", "yesterday", "to", "Foo"},
                       w \in Vocabulary}
      \cup {<<"last", "3", "weeks">>, <<"yesterday", "to">>, <<"this", "week", "today">>,
            <<"yesterday", "to", "Foo">>, <<"yesterday", "to", "tomorrow">>,
            <<"this", "thursday", "Foo">>, <<"last", "march", "to", "today">>,
            <<"mOnDaY", "monday">>, <<"Foo", "this", "12abc">>, <<"Foo", "foo">>,
            <<"last", "mOnDaY", "until", "2023-07">>, <<"2020-03", "to", "2023-07-03">>,
            <<"last", "year", "march", "until", "this", "mOnDaY">>}

RangePhrases ==
    {x \o <<sep>> \o y : x \in RangeSides, sep \in {"to", "until"}, y \in RangeSides}
      \cup {x \o <<"to">> \o y \o <<g>> :
              x \in RangeSides, y \in RangeSides, g \in {"to", "today", "Foo"}}

\* token streams handed to parse_simple_timespan directly: every Day offset
\* of the i8 type, which the tokenizer does not produce
DayOffsets == -128 .. 127

\* instants for TimeSpan::new and TimeSpan::extend
Times == {FirstAnchorDay * TicksPerDay + i : i \in 0 .. NTimes - 1}
Spans == {<<s, e>> \in Times \X Times : s < e}

NoSpan == <<0, 0>>

----------------------------------------------------------------------------
(* the database (src/src/database.rs, src/src/model.rs) *)

MaxClock == 1
MaxFrames == 2
InquireDays == 3

\* the ids of the projects in the table, and the offsets local time takes
ProjectIds == {1, 2}
Offsets == {0, 1}
Handles == {"cli", "gui"}

\* a Timestamp is a DateTime<FixedOffset>: the instant utc and the offset of
\* local time from UTC, in ticks
Timestamp(utc, off) == [utc |-> utc, off |-> off]

\* Timestamp::now() when the clock shows c and the local offset is o
Timestamp_now(c, o) == Timestamp(c, o)

\* Timestamp::from_naive: the local time naive read with the local offset o
from_naive(naive, o) == Timestamp(naive - o, o)

\* the derived Ord of Timestamp compares the instants
InstantLt(x, y) == x.utc < y.utc

\* to_sql writes to_rfc3339(): the local date and time followed by the
\* offset; as text it is ordered by local time first, then by offset
to_rfc3339(ts) == <<ts.utc + ts.off, ts.off>>

\* SQLite's comparison of two Text values
text_lt(x, y) ==
    \/ to_rfc3339(x)[1] < to_rfc3339(y)[1]
    \/ to_rfc3339(x)[1] = to_rfc3339(y)[1] /\ to_rfc3339(x)[2] < to_rfc3339(y)[2]

text_ge(x, y) == ~text_lt(x, y)

T0 == Timestamp(0, 0)
NoEnd == [some |-> FALSE, v |-> T0]
SomeEnd(ts) == [some |-> TRUE, v |-> ts]

\* a row of the table frames
Frame(id, project, start, end) ==
    [id |-> id, project |-> project, start |-> start, end |-> end]
NoFrame == Frame(0, 0, T0, NoEnd)

\* a row of the table projects
Project(id, archived, last_access_time) ==
    [id |-> id, archived |-> archived, last_access_time |-> last_access_time]

\* frames.filter(end.is_null())
ActiveFrames(fr) == {i \in DOMAIN fr : ~fr[i].end.some}

MaxOf(S) == CHOOSE x \in S : \A y \in S : y <= x

\* a current_frame that never finds a frame
current_frame_never(fr) == [some |-> FALSE, v |-> NoFrame]

\* Database::current_frame: the last of the loaded frames without an end,
\* NoActiveFrame (some = FALSE) when there is none
current_frame(fr) ==
    IF ActiveFrames(fr) = {} THEN [some |-> FALSE, v |-> NoFrame]
    ELSE [some |-> TRUE, v |-> fr[MaxOf(ActiveFrames(fr))]]

\* Database::start: insert_into(frames) of NewFrame {project, start: now, end: None}
insert_frame(fr, project, t) == Append(fr, Frame(Len(fr) + 1, project, t, NoEnd))

\* write_projects_impl: the caller's Project written over the row of its id,
\* its last_access_time set to now
write_project(pr, project, t) ==
    [pr EXCEPT ![project.id] = Project(project.id, project.archived, t)]

\* an update that writes nothing
update_row_lost(fr, frame) == fr

\* update_frame: diesel::update(frame).set(frame)
update_row(fr, frame) == [fr EXCEPT ![frame.id] = frame]

\* update_frame: the project of the frame looked up and touched
touch_project(pr, id, t) == [pr EXCEPT ![id].last_access_time = t]

\* results of the calls
NoDbSpan == [start |-> T0, end |-> T0]
Ret(op, kind, frame, rows, span, state) ==
    [op |-> op, kind |-> kind, frame |-> frame, rows |-> rows, span |-> span,
     state |-> state]
NoRet == Ret("none", "", NoFrame, <<>>, NoDbSpan, "")
RetFrame(op, kind, frame) == Ret(op, kind, frame, <<>>, NoDbSpan, "")

\* AlreadyTracking without the frame that is being tracked
AlreadyTracking_noframe(op, existing) == RetFrame(op, "AlreadyTracking", NoFrame)

\* Err(Error::AlreadyTracking(existing))
AlreadyTracking(op, existing) == RetFrame(op, "AlreadyTracking", existing)

\* the filters of get_frames_in_span in the order they are chained:
\* filter(archived = ..), filter(end >= start), or_filter(end IS NULL),
\* filter(frames.start < end); every filter is ANDed and the or_filter ORed
\* onto the whole clause built so far
where_clause(project, frame, span, state) ==
    /\ \/ /\ state # "Both" => project.archived = (state = "OnlyArchived")
          /\ frame.end.some /\ text_ge(frame.end.v, span.start)
       \/ ~frame.end.some
    /\ text_lt(frame.start, span.end)

\* order_by(frames::start): ascending in the stored text
order_by_start(rows) ==
    \A i, j \in DOMAIN rows : i < j => ~text_lt(rows[j].frame.start, rows[i].frame.start)

\* projects inner join frames, one row per frame
Joined(fr, pr) == {[project |-> pr[fr[i].project], frame |-> fr[i]] : i \in DOMAIN fr}

\* the sequences that list every element of the set S once
Listings(S) ==
    {q \in UNION {[1 .. n -> S] : n \in {Cardinality(S)}} :
       \A i, j \in DOMAIN q : i # j => q[i] # q[j]}

\* get_frames_in_span: the results the query may load
get_frames_in_span(fr, pr, span, state) ==
    {rows \in Listings({r \in Joined(fr, pr) : where_clause(r.project, r.frame, span, state)}) :
       order_by_start(rows)}

\* do_inquire_stuff: the with_parser closure of the end time prompt
end_time_parser(begin, end, start_time, time) == ~(end = begin /\ time < start_time)

\* do_inquire_stuff: the span from the answers; whole days run from
\* 00:00:00 to 23:59:59, the last tick of the day
do_inquire_stuff(begin, end, precise_mode, start_time, end_time, o) ==
    IF precise_mode
      THEN [start |-> from_naive(begin * TicksPerDay + start_time, o),
            end |-> from_naive(end * TicksPerDay + end_time, o)]
    ELSE [start |-> from_naive(begin * TicksPerDay, o),
          end |-> from_naive(end * TicksPerDay + (TicksPerDay - 1), o)]

IdleHandle == [pc |-> "idle", project |-> Project(0, FALSE, T0), frame |-> NoFrame]

\* the tables of a database no call has touched
NoDatabase ==
    /\ frames = <<>>
    /\ projects = [i \in ProjectIds |-> Project(i, FALSE, T0)]
    /\ clock = 0 /\ tz = 0
    /\ ret = NoRet
    /\ hpc = [h \in Handles |-> IdleHandle]

\* no call of the resolver
NoParser ==
    /\ fn = "none" /\ words = <<>> /\ tokens = <<>> /\ now = 0
    /\ a = NoSpan /\ b = NoSpan /\ result = NoResult /\ pc = "done"

\* the database after its projects were created, before the first frame
InitDb ==
    /\ NoParser
    /\ frames = <<>>
    /\ projects = [i \in ProjectIds |-> Project(i, FALSE, T0)]
    /\ clock = 0
    /\ tz \in Offsets
    /\ ret = NoRet
    /\ hpc = [h \in Handles |-> IdleHandle]

\* time passes
Tick ==
    /\ clock < MaxClock
    /\ clock' = clock + 1
    /\ UNCHANGED <<frames, projects, tz, ret, hpc>>
    /\ UNCHANGED parservars

\* the offset of local time changes (daylight saving, travel)
ChangeOffset ==
    /\ \E o \in Offsets \ {tz} : tz' = o
    /\ UNCHANGED <<frames, projects, clock, ret, hpc>>
    /\ UNCHANGED parservars

\* Database::start(project), the caller's Project struct having the id and
\* the archived flag given
StartProject(project) ==
    /\ IF current_frame(frames).some
         THEN /\ ret' = AlreadyTracking("start", current_frame(frames).v)
              /\ UNCHANGED <<frames, projects>>
       ELSE /\ Len(frames) < MaxFrames
            /\ frames' = insert_frame(frames, project.id, Timestamp_now(clock, tz))
            /\ projects' = write_project(projects, project, Timestamp_now(clock, tz))
            /\ ret' = RetFrame("start", "Ok", frames'[Len(frames')])
    /\ UNCHANGED <<clock, tz, hpc>>
    /\ UNCHANGED parservars

Start == \E id \in ProjectIds, archived \in BOOLEAN : StartProject(Project(id, archived, T0))

\* stop, after current_frame gave frame
StopFrame(frame) ==
    /\ frames' = update_row(frames, [frame EXCEPT !.end = SomeEnd(Timestamp_now(clock, tz))])
    /\ projects' = touch_project(projects, frame.project, Timestamp_now(clock, tz))
    /\ ret' = RetFrame("stop", "Some", [frame EXCEPT !.end = SomeEnd(Timestamp_now(clock, tz))])

\* Database::stop
Stop ==
    /\ IF current_frame(frames).some
         THEN StopFrame(current_frame(frames).v)
       ELSE /\ ret' = RetFrame("stop", "None", NoFrame)
            /\ UNCHANGED <<frames, projects>>
    /\ UNCHANGED <<clock, tz, hpc>>
    /\ UNCHANGED parservars

\* Database::current_frame
CurrentFrame ==
    /\ ret' = IF current_frame(frames).some
                THEN RetFrame("current_frame", "Ok", current_frame(frames).v)
              ELSE RetFrame("current_frame", "NoActiveFrame", NoFrame)
    /\ UNCHANGED <<frames, projects, clock, tz, hpc>>
    /\ UNCHANGED parservars

NextDb == Tick \/ ChangeOffset \/ Start \/ Stop \/ CurrentFrame

SpecDb == InitDb /\ [][NextDb]_vars

\* the local times a span of a query starts and ends at
QueryTimes == 0 .. MaxClock + 1

\* Database::get_frames_in_span(span, include_archived), both ends of the
\* span carrying the local offset of the moment
GetFramesInSpan ==
    /\ \E s \in QueryTimes, e \in QueryTimes, state \in {"NotArchived", "OnlyArchived", "Both"} :
         /\ s < e
         /\ \E rows \in get_frames_in_span(frames, projects,
                                           [start |-> from_naive(s, tz),
                                            end |-> from_naive(e, tz)], state) :
              ret' = Ret("get_frames_in_span", "Ok", NoFrame, rows,
                         [start |-> from_naive(s, tz), end |-> from_naive(e, tz)],
                         state)
    /\ UNCHANGED <<frames, projects, clock, tz, hpc>>
    /\ UNCHANGED parservars

NextQuery == Tick \/ ChangeOffset \/ Start \/ Stop \/ GetFramesInSpan

SpecQuery == InitDb /\ [][NextQuery]_vars

\* list_frames(db, span): assert!(start < end), then the query with Both
list_frames(span) ==
    IF ~InstantLt(span.start, span.end)
      THEN ret' = Ret("list_frames", "Panic", NoFrame, <<>>, span, "Both")
    ELSE \E rows \in get_frames_in_span(frames, projects, span, "Both") :
           ret' = Ret("list_frames", "Ok", NoFrame, rows, span, "Both")

\* main, Action::Analyze with the interactive prompts: do_inquire_stuff, then
\* list_frames
Analyze ==
    /\ \E begin \in 0 .. InquireDays - 1, end \in 0 .. InquireDays - 1,
          precise_mode \in BOOLEAN,
          start_time \in 0 .. TicksPerDay - 1, end_time \in 0 .. TicksPerDay - 1 :
         /\ end >= begin
         /\ precise_mode => end_time_parser(begin, end, start_time, end_time)
         /\ list_frames(do_inquire_stuff(begin, end, precise_mode, start_time, end_time,
                                         tz))
    /\ UNCHANGED <<frames, projects, clock, tz, hpc>>
    /\ UNCHANGED parservars

NextInquire == ChangeOffset \/ Analyze

SpecInquire == InitDb /\ [][NextInquire]_vars

\* Database::start through the handle h, up to the answer of current_frame
StartCheck(h, project) ==
    /\ hpc[h].pc = "idle"
    /\ IF current_frame(frames).some
         THEN /\ ret' = AlreadyTracking("start", current_frame(frames).v)
              /\ UNCHANGED hpc
       ELSE /\ hpc' = [hpc EXCEPT ![h] = [pc |-> "insert", project |-> project,
                                          frame |-> NoFrame]]
            /\ UNCHANGED ret
    /\ UNCHANGED <<frames, projects, clock, tz>>
    /\ UNCHANGED parservars

\* Database::start through the handle h: the transaction that writes the
\* project and inserts the frame
StartInsert(h) ==
    /\ hpc[h].pc = "insert"
    /\ Len(frames) < MaxFrames
    /\ frames' = insert_frame(frames, hpc[h].project.id, Timestamp_now(clock, tz))
    /\ projects' = write_project(projects, hpc[h].project, Timestamp_now(clock, tz))
    /\ ret' = RetFrame("start", "Ok", frames'[Len(frames')])
    /\ hpc' = [hpc EXCEPT ![h] = IdleHandle]
    /\ UNCHANGED <<clock, tz>>
    /\ UNCHANGED parservars

\* Database::stop through the handle h, up to the answer of current_frame
StopCheck(h) ==
    /\ hpc[h].pc = "idle"
    /\ IF current_frame(frames).some
         THEN /\ hpc' = [hpc EXCEPT ![h] = [pc |-> "update", project |-> Project(0, FALSE, T0),
                                            frame |-> current_frame(frames).v]]
              /\ UNCHANGED ret
       ELSE /\ ret' = RetFrame("stop", "None", NoFrame)
            /\ UNCHANGED hpc
    /\ UNCHANGED <<frames, projects, clock, tz>>
    /\ UNCHANGED parservars

\* Database::stop through the handle h: update_frame
StopUpdate(h) ==
    /\ hpc[h].pc = "update"
    /\ StopFrame(hpc[h].frame)
    /\ hpc' = [hpc EXCEPT ![h] = IdleHandle]
    /\ UNCHANGED <<clock, tz>>
    /\ UNCHANGED parservars

NextDb2 ==
    \/ Tick
    \/ ChangeOffset
    \/ \E h \in Handles, id \in ProjectIds : StartCheck(h, Project(id, FALSE, T0))
    \/ \E h \in Handles : StartInsert(h)
    \/ \E h \in Handles : StopCheck(h)
    \/ \E h \in Handles : StopUpdate(h)

SpecDb2 == InitDb /\ [][NextDb2]_vars

----------------------------------------------------------------------------
(* the state machine *)

Init ==
    /\ NoDatabase
    /\ pc = "call"
    /\ result = NoResult
    /\ \/ /\ fn = "parse"
          /\ \/ words \in Phrases /\ now \in Anchors
             \/ words \in RangePhrases /\ now \in FewAnchors
          /\ tokens = <<>>
          /\ a = NoSpan /\ b = NoSpan
       \/ /\ fn = "parse_simple_timespan"
          /\ words = <<>>
          /\ \E d \in DayOffsets : tokens = <<Day(d)>>
          /\ now \in FewAnchors
          /\ a = NoSpan /\ b = NoSpan
       \/ /\ fn = "new"
          /\ words = <<>> /\ tokens = <<>> /\ now = 0
          /\ a \in Times \X Times
          /\ b = NoSpan
       \/ /\ fn = "extend"
          /\ words = <<>> /\ tokens = <<>> /\ now = 0
          /\ a \in Spans /\ b \in Spans

\* parse(text, context)
CallParse ==
    /\ pc = "call" /\ fn = "parse"
    /\ tokens' = tokenize(words)
    /\ \E overflow_checks \in BOOLEAN : result' = parse(words, now, overflow_checks)
    /\ pc' = "done"
    /\ UNCHANGED <<fn, words, now, a, b>>
    /\ UNCHANGED dbvars

\* parse_simple_timespan(tokens, context) on the first token of a stream
CallParseSimpleTimespan ==
    /\ pc = "call" /\ fn = "parse_simple_timespan"
    /\ \E overflow_checks \in BOOLEAN :
         result' = parse_simple_timespan(tokens, 1, now, overflow_checks).out
    /\ pc' = "done"
    /\ UNCHANGED <<fn, words, tokens, now, a, b>>
    /\ UNCHANGED dbvars

\* TimeSpan::new(start, end), a = <<start, end>>
CallNew ==
    /\ pc = "call" /\ fn = "new"
    /\ result' = TimeSpan_new(a[1], a[2])
    /\ pc' = "done"
    /\ UNCHANGED <<fn, words, tokens, now, a, b>>
    /\ UNCHANGED dbvars

\* self.extend(other), a = self, b = other
CallExtend ==
    /\ pc = "call" /\ fn = "extend"
    /\ result' = TimeSpan_extend(Ok(a[1], a[2]), Ok(b[1], b[2]))
    /\ pc' = "done"
    /\ UNCHANGED <<fn, words, tokens, now, a, b>>
    /\ UNCHANGED dbvars

Next == CallParse \/ CallParseSimpleTimespan \/ CallNew \/ CallExtend

Spec == Init /\ [][Next]_vars

----------------------------------------------------------------------------
(* the Timestamps that `+ Months::new(n)` and `- Months::new(n)` are applied
   to while a phrase is resolved *)

ValueOf(o) == IF o.some THEN {o.v} ELSE {}

\* arm Token::Span(Type::SpecificMonth): start - 12 months when the candidate
\* is after the anchor, then start + 1 month
MonthShiftsFrom(cand, anchor) ==
    IF ~cand.some THEN {}
    ELSE IF cand.v > anchor THEN {cand.v} \cup ValueOf(SubMonths(cand.v, 12))
    ELSE {cand.v}

MonthShiftsOfSpecificMonth(month, anchor) ==
    MonthShiftsFrom(with_month0(with_day1(at_midnight(anchor)), month), anchor)

\* parse_span, first match: start + 1 month, start + 12 months
MonthShiftsOfCurrent(span, anchor) ==
    IF span.k = "Month" THEN {with_day1(at_midnight(anchor))}
    ELSE IF span.k = "Year" THEN ValueOf(with_month0(with_day1(at_midnight(anchor)), 0))
    ELSE {}

\* parse_span, second match with is_current = false: both ends moved back
MonthShiftsOfPrevious(span, is_current, timespan) ==
    IF is_current \/ timespan.kind # "Ok" \/ span.k \notin {"Month", "Year"} THEN {}
    ELSE {timespan.start, timespan.end}

MonthShiftsOfSpan(span, anchor, is_current) ==
    MonthShiftsOfCurrent(span, anchor)
      \cup MonthShiftsOfPrevious(span, is_current, CurrentSpan(span, anchor))

\* parse_simple_timespan from position pos
MonthShiftsAt(toks, pos, anchor) ==
    IF pos > Len(toks) THEN {}
    ELSE IF pos < Len(toks) /\ toks[pos].t = "This" /\ toks[pos + 1].t = "Span"
      THEN MonthShiftsOfSpan(toks[pos + 1], anchor, TRUE)
    ELSE IF pos < Len(toks) /\ toks[pos].t = "Last" /\ toks[pos + 1].t = "Span"
      THEN MonthShiftsOfSpan(toks[pos + 1], anchor, FALSE)
    ELSE IF toks[pos].t = "Span" /\ toks[pos].k = "SpecificMonth"
      THEN MonthShiftsOfSpecificMonth(toks[pos].n, anchor)
    ELSE {}

\* parse: the second side is resolved when the first gave a span and To follows
MonthShiftsAfter(toks, anchor, first) ==
    IF first.out.kind = "Ok" /\ first.pos <= Len(toks) /\ toks[first.pos].t = "To"
      THEN MonthShiftsAt(toks, first.pos + 1, anchor)
    ELSE {}

MonthShifts(toks, anchor) ==
    MonthShiftsAt(toks, 1, anchor)
      \cup MonthShiftsAfter(toks, anchor, parse_simple_timespan(toks, 1, anchor, FALSE))

----------------------------------------------------------------------------
(* parse called with an anchor in the first or last days of the range of
   dates a Timestamp can hold *)

EdgeAnchors ==
    {d * TicksPerDay + k :
       d \in (MinRepDay .. MinRepDay + EdgeDays - 1)
                \cup (MaxRepDay - EdgeDays + 1 .. MaxRepDay),
       k \in 0 .. TicksPerDay - 1}

EdgePhrases ==
    {<<"today">>, <<"yesterday">>, <<"wednesday">>, <<"december">>,
     <<"this", "week">>, <<"last", "week">>, <<"this", "month">>, <<"last", "month">>,
     <<"this", "year">>, <<"last", "year">>, <<"yesterday", "to", "today">>}

InitEdge ==
    /\ NoDatabase
    /\ pc = "call"
    /\ result = NoResult
    /\ fn = "parse"
    /\ words \in EdgePhrases /\ now \in EdgeAnchors
    /\ tokens = <<>>
    /\ a = NoSpan /\ b = NoSpan

NextEdge == CallParse

SpecEdge == InitEdge /\ [][NextEdge]_vars

----------------------------------------------------------------------------
(* vocabulary of the properties, stated on the calendar and not on the *)
(* resolver's arithmetic                                                *)

OneDay == TicksPerDay

\* 00:00:00 of the calendar day of t
Midnight(t) == DayOf(t) * TicksPerDay

\* days from the Monday on or before t to t; 2024-01-01 is a Monday
DaysSinceMonday(t) == (DayOf(t) - DaysFromCivil(2024, 1, 1)) % 7

\* 00:00:00 of the first day of month m of year y
FirstOf(y, m) == DaysFromCivil(y, m, 1) * TicksPerDay

\* months counted from year 0, and the first instant of such a month
MonthIndex(t) == Date(t).y * 12 + Date(t).m - 1
FirstOfIndex(i) == FirstOf(i \div 12, (i % 12) + 1)

Returned(f) == pc = "done" /\ fn = f
IsSpan(r, s, e) == r.kind = "Ok" /\ r.start = s /\ r.end = e
IsEndBeforeStart(r, s, e) ==
    r.kind = "Err" /\ r.err = "EndBeforeStart" /\ r.start = s /\ r.end = e

----------------------------------------------------------------------------
(* properties *)

\* C1: parse is total: every call of parse returns a TimeSpan or a
\* ParseError, it never panics or reaches an unimplemented branch.
C1_ParseIsTotal ==
    Returned("parse") => result.kind \in {"Ok", "Err"}

\* C2: every TimeSpan that parse or parse_simple_timespan returns has
\* start < end strictly.
C2_SpanStartBeforeEnd ==
    (pc = "done" /\ fn \in {"parse", "parse_simple_timespan"} /\ result.kind = "Ok")
        => result.start < result.end

\* a range composed by extend was returned
C2_Witness ==
    /\ Returned("parse") /\ words = <<"yesterday", "to", "today">>
    /\ result.kind = "Ok"

\* C3: TimeSpan::new(s, e) returns the span (s, e) if and only if e > s, and
\* fails with EndBeforeStart(s, e) when e <= s.
C3_NewIffEndAfterStart ==
    Returned("new") =>
        /\ (result.kind = "Ok") <=> (a[2] > a[1])
        /\ a[2] > a[1] => IsSpan(result, a[1], a[2])
        /\ a[2] <= a[1] => IsEndBeforeStart(result, a[1], a[2])

\* new(s, s) was called and refused
C3_Witness ==
    Returned("new") /\ a[1] = a[2] /\ result.kind = "Err"

\* C4: for valid spans A and B, A.extend(B) is the span (A.start, B.end) when
\* A.start < B.end and fails with EndBeforeStart otherwise, whatever A.end
\* and B.start are.
C4_ExtendIsStartToEnd ==
    Returned("extend") =>
        IF a[1] < b[2] THEN IsSpan(result, a[1], b[2])
        ELSE IsEndBeforeStart(result, a[1], b[2])

\* B starts before A and ends inside A, and the extension ends where B ends
C4_Witness ==
    /\ Returned("extend") /\ b[1] < a[1] /\ a[1] < b[2] /\ b[2] < a[2]
    /\ result.kind = "Ok"

\* C5 as stated: for every anchor, parse(["today"]) returns
\* [midnight(now), now).
C5_TodayForEveryAnchor ==
    (Returned("parse") /\ words = <<"today">>)
        => IsSpan(result, Midnight(now), now)

\* C5: for every anchor after 00:00:00 of its day, parse(["today"]) returns
\* [midnight(now), now); for an anchor at exactly 00:00:00 it fails with
\* EndBeforeStart(now, now).
C5_Today ==
    (Returned("parse") /\ words = <<"today">>) =>
        IF now > Midnight(now) THEN IsSpan(result, Midnight(now), now)
        ELSE IsEndBeforeStart(result, now, now)

\* "today" resolved at an anchor later than midnight
C5_Witness ==
    /\ Returned("parse") /\ words = <<"today">> /\ now > Midnight(now)
    /\ result.kind = "Ok"

\* C6: for every Day(d) with d in -128..-1 and every anchor the resolved
\* interval is [midnight(now) - (-d) days,
\*              min(now, midnight(now) - (-d) days + 1 day)).
C6_DaysAgo ==
    (Returned("parse_simple_timespan") /\ tokens[1].t = "Day" /\ tokens[1].n < 0) =>
        LET begin == Midnight(now) - (0 - tokens[1].n) * OneDay
        IN  IsSpan(result, begin, MinT(now, begin + OneDay))

\* C7: for every anchor, parse(["this", "week"]) returns [S, S + 7 days)
\* with S = midnight(now) - days since Monday; S is a Monday at 00:00:00 and
\* S <= now < S + 7 days.
C7_ThisWeek ==
    (Returned("parse") /\ words = <<"this", "week">>) =>
        LET S == Midnight(now) - DaysSinceMonday(now) * OneDay
        IN  /\ IsSpan(result, S, S + 7 * OneDay)
            /\ DaysSinceMonday(S) = 0 /\ TickOf(S) = 0
            /\ S <= now /\ now < S + 7 * OneDay

\* "this week" resolved on a Sunday
C7_Witness ==
    /\ Returned("parse") /\ words = <<"this", "week">>
    /\ DaysSinceMonday(now) = 6 /\ result.kind = "Ok"

\* C8: for every anchor, parse(["this", "month"]) returns [first of now's
\* month, first of the following month) and parse(["this", "year"]) returns
\* [1 January of now's year, 1 January of the following year), both at
\* 00:00:00, so start <= now < end.
C8_ThisMonthThisYear ==
    (Returned("parse") /\ Len(words) = 2 /\ words[1] = "this"
        /\ words[2] \in {"month", "year"}) =>
        LET c == Date(now)
            S == IF words[2] = "month" THEN FirstOf(c.y, c.m) ELSE FirstOf(c.y, 1)
            E == IF words[2] = "year" THEN FirstOf(c.y + 1, 1)
                 ELSE IF c.m = 12 THEN FirstOf(c.y + 1, 1)
                 ELSE FirstOf(c.y, c.m + 1)
        IN  /\ IsSpan(result, S, E)
            /\ S <= now /\ now < E

\* "this month" resolved in December
C8_Witness ==
    /\ Returned("parse") /\ words = <<"this", "month">>
    /\ Date(now).m = 12 /\ result.kind = "Ok"

\* last is the interval this moved back by one unit of the kind
ShiftedBack(this, last, kind) ==
    /\ this.kind = "Ok" /\ last.kind = "Ok"
    /\ last.end = this.start
    /\ IF kind = "week"
       THEN /\ last.start = this.start - 7 * OneDay
            /\ last.end = this.end - 7 * OneDay
       ELSE /\ last.start = FirstOfIndex(MonthIndex(this.start) - (IF kind = "month" THEN 1 ELSE 12))
            /\ last.end = FirstOfIndex(MonthIndex(this.end) - (IF kind = "month" THEN 1 ELSE 12))

\* C9: for kind in {week, month, year} and every anchor, parse(["last", kind])
\* is the parse(["this", kind]) interval with both ends moved back by one
\* unit (7 days, 1 calendar month, 12 calendar months), and it ends where the
\* "this" interval starts.
C9_LastIsThisShifted ==
    (Returned("parse") /\ Len(words) = 2 /\ words[1] = "last"
        /\ words[2] \in {"week", "month", "year"}) =>
        ShiftedBack(parse(<<"this", words[2]>>, now, TRUE), result, words[2])

\* "last month" resolved in January: the shift crosses the year
C9_Witness ==
    /\ Returned("parse") /\ words = <<"last", "month">>
    /\ Date(now).m = 1 /\ result.kind = "Ok"

\* C10: for every weekday w in 0..6 and every anchor, a lone weekday word
\* resolves to [S, S + 1 day) where S is 00:00:00 of the most recent day
\* with weekday w at or before now: weekday(S) = w, S <= now,
\* now - S < 7 days, and S = midnight(now) when now's weekday is w.
C10_LoneWeekday ==
    (Returned("parse") /\ Len(words) = 1 /\ IndexOf(WeekdayNames, words[1]) # 0) =>
        LET w == IndexOf(WeekdayNames, words[1]) - 1
            S == result.start
        IN  /\ IsSpan(result, S, S + OneDay)
            /\ TickOf(S) = 0 /\ DaysSinceMonday(S) = w
            /\ S <= now /\ now - S < 7 * OneDay
            /\ DaysSinceMonday(now) = w => S = Midnight(now)

\* a weekday later in the week than the anchor's: the occurrence of the
\* week before is returned
C10_Witness ==
    /\ Returned("parse") /\ Len(words) = 1 /\ IndexOf(WeekdayNames, words[1]) # 0
    /\ IndexOf(WeekdayNames, words[1]) - 1 > DaysSinceMonday(now)
    /\ result.kind = "Ok" /\ result.start < Midnight(now)

\* a Weekday or SpecificMonth span token
IsNamedSpan(tk) == tk.t = "Span" /\ tk.k \in {"Weekday", "SpecificMonth"}

IsErr(r, name) == r.kind = "Err" /\ r.err = name

\* C11: for every month m in 0..11 and every anchor, a lone month name
\* resolves to [S, S + 1 month) where S is 00:00:00 of the first day of the
\* most recent month m begun at or before now: in now's year if m <= now's
\* month, otherwise in the year before.
C11_LoneMonth ==
    (Returned("parse") /\ Len(words) = 1 /\ IndexOf(MonthNames, words[1]) # 0) =>
        LET m == IndexOf(MonthNames, words[1])
            y == IF m <= Date(now).m THEN Date(now).y ELSE Date(now).y - 1
        IN  /\ IsSpan(result, FirstOf(y, m), FirstOfIndex(y * 12 + m))
            /\ result.start <= now

\* a month later in the year than the anchor's: last year's is returned
C11_Witness ==
    /\ Returned("parse") /\ Len(words) = 1 /\ IndexOf(MonthNames, words[1]) # 0
    /\ IndexOf(MonthNames, words[1]) > Date(now).m
    /\ result.kind = "Ok" /\ Date(result.start).y = Date(now).y - 1

\* C12: for every anchor, This or Last immediately followed by a Weekday or
\* SpecificMonth token, at the start of the phrase or right after
\* "yesterday to", makes parse fail with LanguageIsComplicated.
C12_NamedSpanAfterThisLast ==
    /\ (Returned("parse") /\ Len(tokens) >= 2 /\ tokens[1].t \in {"This", "Last"}
          /\ IsNamedSpan(tokens[2]))
         => IsErr(result, "LanguageIsComplicated")
    /\ (Returned("parse") /\ Len(tokens) >= 4 /\ tokens[1] = Day(-1) /\ tokens[2] = To
          /\ tokens[3].t \in {"This", "Last"} /\ IsNamedSpan(tokens[4]))
         => IsErr(result, "LanguageIsComplicated")

\* "last thursday" was refused
C12_Witness ==
    /\ Returned("parse") /\ words = <<"last", "thursday">>
    /\ IsErr(result, "LanguageIsComplicated")

\* C13: a token sequence whose first token is To, Number, PartialIsoDate,
\* IsoDate or Error, or This/Last not followed by a span token, makes parse
\* fail with UnexpectedToken.
C13_BadLeadingToken ==
    (Returned("parse") /\ Len(tokens) >= 1
       /\ \/ tokens[1].t \in {"To", "Number", "PartialIsoDate", "IsoDate", "Error"}
          \/ /\ tokens[1].t \in {"This", "Last"}
             /\ (Len(tokens) = 1 \/ tokens[2].t # "Span"))
        => IsErr(result, "UnexpectedToken")

\* C14: an Error token at the start of the phrase, or a Day(d) token with
\* d > 0 where a span must start, makes the parser fail with InvalidToken.
C14_InvalidToken ==
    /\ (Returned("parse") /\ Len(tokens) >= 1 /\ tokens[1].t = "Error")
         => IsErr(result, "InvalidToken")
    /\ (Returned("parse_simple_timespan") /\ tokens[1].t = "Day" /\ tokens[1].n > 0)
         => IsErr(result, "InvalidToken")

\* C15: parse fails with EmptyInput if and only if the token sequence is
\* empty.
C15_EmptyInputIffEmpty ==
    Returned("parse") => (IsErr(result, "EmptyInput") <=> tokens = <<>>)

\* position of the first To token of a stream, 0 if there is none
FirstTo(toks) ==
    IF \E i \in 1 .. Len(toks) : toks[i] = To
      THEN CHOOSE i \in 1 .. Len(toks) :
             toks[i] = To /\ \A j \in 1 .. i - 1 : toks[j] # To
    ELSE 0

\* the words before and after the first To
LeftOf(ws) == SubSeq(ws, 1, FirstTo(tokenize(ws)) - 1)
RightOf(ws) == SubSeq(ws, FirstTo(tokenize(ws)) + 1, Len(ws))

\* a phrase resolved on its own as one simple span against the anchor
Side(ws, anchor) == parse_simple_timespan(tokenize(ws), 1, anchor, FALSE)

\* the whole phrase was taken and gave a span
Resolved(side, ws) == side.out.kind = "Ok" /\ side.pos = Len(ws) + 1

IsToday(ws) == tokenize(ws) = <<Day(0)>>

\* words is A To B with nothing after B, A and B resolving on their own
IsRange(A, B) ==
    /\ Returned("parse") /\ FirstTo(tokens) > 1
    /\ Resolved(Side(A, now), A) /\ Resolved(Side(B, now), B)

RangeIsSpan(sa, sb) == sa.out.start < sb.out.end => IsSpan(result, sa.out.start, sb.out.end)

RangeIsInverted(sa, sb) ==
    sb.out.end <= sa.out.start => IsEndBeforeStart(result, sa.out.start, sb.out.end)

\* C16 as stated: every A To B with A.start < B.end, A and B resolving,
\* returns [A.start, B.end).
C16_RangeForEverySide ==
    IsRange(LeftOf(words), RightOf(words))
      => RangeIsSpan(Side(LeftOf(words), now), Side(RightOf(words), now))

\* C16: for every anchor and every A To B (nothing after B) where A and B
\* each resolve to a span on their own, A is not the word "today" and
\* A.start < B.end, parse returns exactly [A.start, B.end); when A is "today"
\* parse fails with UnexpectedToken instead.
C16_Range ==
    IsRange(LeftOf(words), RightOf(words))
      => IF IsToday(LeftOf(words))
           THEN IsErr(result, "UnexpectedToken")
         ELSE RangeIsSpan(Side(LeftOf(words), now), Side(RightOf(words), now))

\* "yesterday until today" gave [midnight(now) - 1 day, now)
C16_Witness ==
    /\ Returned("parse") /\ words = <<"yesterday", "until", "today">>
    /\ result.kind = "Ok"
    /\ result.start = Midnight(now) - OneDay /\ result.end = now

\* C17 as stated: every A To B with B.end <= A.start, A and B resolving,
\* fails with EndBeforeStart(A.start, B.end).
C17_InvertedForEverySide ==
    IsRange(LeftOf(words), RightOf(words))
      => RangeIsInverted(Side(LeftOf(words), now), Side(RightOf(words), now))

\* C17: for every anchor and every A To B where A and B each resolve to a
\* span on their own, A is not the word "today" and B.end <= A.start, parse
\* fails with EndBeforeStart(A.start, B.end) and returns no interval; when A
\* is "today" parse fails with UnexpectedToken instead.
C17_Inverted ==
    IsRange(LeftOf(words), RightOf(words))
      => IF IsToday(LeftOf(words))
           THEN IsErr(result, "UnexpectedToken")
         ELSE RangeIsInverted(Side(LeftOf(words), now), Side(RightOf(words), now))

\* "yesterday to last week" was refused as inverted
C17_Witness ==
    /\ Returned("parse") /\ words = <<"yesterday", "to", "last", "week">>
    /\ IsErr(result, "EndBeforeStart")
    /\ result.start = Midnight(now) - OneDay /\ result.end <= result.start

\* words is A To B followed by more tokens, B being the first n words after
\* the To, A and B resolving on their own
IsRangeWithTrailing(A, rest, n) ==
    /\ Returned("parse") /\ FirstTo(tokens) > 1
    /\ n < Len(rest)
    /\ Resolved(Side(A, now), A)
    /\ Resolved(Side(SubSeq(rest, 1, n), now), SubSeq(rest, 1, n))

TrailingOutcome(A, B, sa, sb) ==
    IF IsToday(A) \/ IsToday(B) \/ sa.out.start < sb.out.end
      THEN IsErr(result, "UnexpectedToken")
    ELSE IsEndBeforeStart(result, sa.out.start, sb.out.end)

\* C18 as stated: every A To B followed by a further token fails with
\* UnexpectedToken, whatever A and B are.
C18_TrailingForEverySide ==
    \A n \in 1 .. 2 :
      IsRangeWithTrailing(LeftOf(words), RightOf(words), n)
        => IsErr(result, "UnexpectedToken")

\* C18: for every anchor and every A To B followed by at least one more
\* token, A and B each resolving to a span on their own, parse fails with
\* UnexpectedToken when A.start < B.end or A or B is the word "today", and
\* with EndBeforeStart(A.start, B.end) otherwise.
C18_Trailing ==
    \A n \in 1 .. 2 :
      IsRangeWithTrailing(LeftOf(words), RightOf(words), n)
        => TrailingOutcome(LeftOf(words), SubSeq(RightOf(words), 1, n),
                           Side(LeftOf(words), now),
                           Side(SubSeq(RightOf(words), 1, n), now))

\* "yesterday to this week Foo" was refused for the token after the range
C18_Witness ==
    /\ Returned("parse") /\ words = <<"yesterday", "to", "this", "week", "Foo">>
    /\ IsErr(result, "UnexpectedToken") /\ result.site = "after range"

MinRepYear == Date(MinRepDay * TicksPerDay).y
MaxRepYear == Date(MaxRepDay * TicksPerDay).y

\* the phrase asks for a day or month shift whose target lies outside the
\* representable range
ShiftLeavesRange(ws, t) ==
    \/ ws = <<"yesterday">> /\ DayOf(t) - 1 < MinRepDay
    \/ ws = <<"this", "week">>
         /\ \/ DayOf(t) - DaysSinceMonday(t) < MinRepDay
            \/ DayOf(t) - DaysSinceMonday(t) + 7 > MaxRepDay
    \/ ws = <<"last", "week">> /\ DayOf(t) - DaysSinceMonday(t) - 7 < MinRepDay
    \/ ws = <<"this", "month">> /\ Date(t).y = MaxRepYear /\ Date(t).m = 12
    \/ ws = <<"last", "month">> /\ Date(t).y = MinRepYear /\ Date(t).m = 1
    \/ ws = <<"this", "year">> /\ Date(t).y = MaxRepYear
    \/ ws = <<"last", "year">> /\ Date(t).y = MinRepYear

\* C19: whenever a day or month shift made while resolving a phrase leaves
\* the representable range, parse returns the error OutOfRange: no panic, no
\* wrapped or clamped interval.
C19_OutOfRange ==
    (Returned("parse") /\ ShiftLeavesRange(words, now)) => IsErr(result, "OutOfRange")

KnownWords ==
    {"yesterday", "today", "last", "this", "to", "until"}
      \cup Range(WeekdayNames) \cup Range(MonthNames) \cup KindWords
      \cup {"3", "12", "2023-07-03", "2023-07", "2020-03"}

\* C21: tokenize yields one token per word, in order; the i-th token is
\* Error carrying the i-th word as typed exactly when the lower-cased word
\* is outside the vocabulary, and otherwise depends on the lower-cased word
\* only ("mOnDaY" and "monday" both give Weekday(0)); tokenizing the same
\* words again gives the same sequence.
C21_TokenizePerWord ==
    Returned("parse") =>
        /\ Len(tokens) = Len(words)
        /\ tokens = tokenize(words)
        /\ \A i \in DOMAIN words :
             /\ tokens[i] = tokenize(<<words[i]>>)[1]
             /\ tokens[i].t = "Error" <=> to_lowercase(words[i]) \notin KnownWords
             /\ tokens[i].t = "Error" => tokens[i] = Error(words[i])
             /\ words[i] \in {"mOnDaY", "monday"} => tokens[i] = Weekday(0)
             /\ \A j \in DOMAIN words :
                  (to_lowercase(words[i]) = to_lowercase(words[j]) /\ tokens[i].t # "Error")
                     => tokens[i] = tokens[j]

\* "mOnDaY monday" gave the same token twice
C21_Witness ==
    /\ Returned("parse") /\ words = <<"mOnDaY", "monday">>
    /\ tokens = <<Weekday(0), Weekday(0)>>

IsFirstOfMonthAtMidnight(t) == TickOf(t) = 0 /\ Date(t).d = 1

\* C26: for every anchor and phrase, every Timestamp that 1 or 12 months
\* are added to or subtracted from while parse resolves the phrase is
\* 00:00:00 on day 1 of a month.
C26_MonthShiftsOnFirstOfMonth ==
    Returned("parse") => \A t \in MonthShifts(tokens, now) : IsFirstOfMonthAtMidnight(t)

\* "last month" on a 31st after midnight shifted both ends of the month
C26_Witness ==
    /\ Returned("parse") /\ words = <<"last", "month">>
    /\ Date(now).d = 31 /\ TickOf(now) # 0
    /\ result.kind = "Ok"
    /\ Cardinality(MonthShifts(tokens, now)) = 2

\* C28: every span parse returns, for a single span or a range, starts at
\* or before the anchor.
C28_StartNotAfterAnchor ==
    (Returned("parse") /\ result.kind = "Ok") => result.start <= now

\* "wednesday to today" on a Monday starts at last week's Wednesday
C28_Witness ==
    /\ Returned("parse") /\ words = <<"wednesday", "to", "today">>
    /\ result.kind = "Ok"
    /\ DaysSinceMonday(now) = 0
    /\ result.start = Midnight(now) - 5 * OneDay

\* the frames a span asks for: started before the end of the span and not
\* ended before its start
FramesInSpan(fr, span) ==
    {f \in Range(fr) : /\ InstantLt(f.start, span.end)
                       /\ ~f.end.some \/ ~InstantLt(f.end.v, span.start)}

RowFrames(rows) == {rows[i].frame : i \in DOMAIN rows}

\* C22: for every stored set of frames and every span with start < end,
\* get_frames_in_span(span, Both) returns exactly the frames R with
\* R.start < span.end and (R.end >= span.start or R has no end), each once
\* and with its project, ordered by R.start; no returned frame starts at or
\* after span.end.
C22_FramesInSpan ==
    (ret.op = "get_frames_in_span" /\ ret.state = "Both") =>
        /\ RowFrames(ret.rows) = FramesInSpan(frames, ret.span)
        /\ Len(ret.rows) = Cardinality(FramesInSpan(frames, ret.span))
        /\ \A i \in DOMAIN ret.rows :
             /\ ret.rows[i].project = projects[ret.rows[i].frame.project]
             /\ InstantLt(ret.rows[i].frame.start, ret.span.end)
        /\ \A i, j \in DOMAIN ret.rows :
             i < j => ~InstantLt(ret.rows[j].frame.start, ret.rows[i].frame.start)

\* C23: with NotArchived every frame get_frames_in_span returns belongs to
\* a project that is not archived, with OnlyArchived to an archived one,
\* frames without an end included.
C23_ArchivedFilter ==
    (ret.op = "get_frames_in_span" /\ ret.state # "Both") =>
        \A i \in DOMAIN ret.rows :
            ret.rows[i].project.archived = (ret.state = "OnlyArchived")

\* C24: a stop with no active frame returns None and changes no frame and
\* no project; a stop with an active frame returns that frame with its end
\* set to the current time, stores it, leaves the other frames alone, and
\* leaves no active frame: current_frame then reports NoActiveFrame and a
\* second stop returns None.
C24_Stop ==
    [][Stop =>
         IF ActiveFrames(frames) = {}
           THEN ret'.kind = "None" /\ frames' = frames /\ projects' = projects
         ELSE /\ ret'.kind = "Some"
              /\ ret'.frame.id \in ActiveFrames(frames)
              /\ ret'.frame.end = SomeEnd(Timestamp_now(clock, tz))
              /\ ret'.frame = [frames[ret'.frame.id] EXCEPT !.end = ret'.frame.end]
              /\ frames'[ret'.frame.id] = ret'.frame
              /\ \A i \in DOMAIN frames : i # ret'.frame.id => frames'[i] = frames[i]
              /\ DOMAIN frames' = DOMAIN frames
              /\ ~current_frame(frames').some
              /\ ActiveFrames(frames') = {}]_vars

\* a stop closed the frame it returned
C24_Witness ==
    /\ ret.op = "stop" /\ ret.kind = "Some"
    /\ frames[ret.frame.id].end.some
    /\ ActiveFrames(frames) = {}

\* C25: a start while a frame is active fails with AlreadyTracking carrying
\* the active frame, inserts no frame and leaves every frame and every
\* project, last_access_time included, unchanged.
C25_StartWhileTracking ==
    [][(Start /\ ActiveFrames(frames) # {}) =>
         /\ ret'.op = "start" /\ ret'.kind = "AlreadyTracking"
         /\ ret'.frame \in {frames[i] : i \in ActiveFrames(frames)}
         /\ frames' = frames
         /\ projects' = projects]_vars

\* a start was refused and the frame it names is still the active one
C25_Witness ==
    /\ ret.op = "start" /\ ret.kind = "AlreadyTracking"
    /\ ActiveFrames(frames) = {ret.frame.id}
    /\ frames[ret.frame.id] = ret.frame

\* C27: after any sequence of start and stop calls made one at a time
\* through one Database handle, from a database with no active frame, at
\* most one frame has no end.
C27_AtMostOneActive == Cardinality(ActiveFrames(frames)) <= 1

\* a second frame was started after the first was stopped
C27_Witness ==
    /\ Len(frames) = 2
    /\ frames[1].end.some /\ ~frames[2].end.some
    /\ ret.op = "start" /\ ret.kind = "Ok"

\* C29: whatever way two Database handles on one database interleave their
\* start calls, no two frames are without an end.
C29_NoTwoActive ==
    \A i, j \in DOMAIN frames : (~frames[i].end.some /\ ~frames[j].end.some) => i = j

\* C30: the span that do_inquire_stuff builds has start < end for every
\* pair of dates with end >= begin, in both modes and for every end time
\* the prompt accepts, so the assert of list_frames does not fail.
C30_InquiredSpanIsOrdered ==
    ret.op = "list_frames" =>
        InstantLt(ret.span.start, ret.span.end) /\ ret.kind # "Panic"

====
